---- MODULE Spec2Model ----
(***************************************************************************)
(* Model of rawmap.Loader: the preprocessor _raw_map_to_list, the          *)
(* recursive reader _map_reader with its helpers change_data_type and      *)
(* get_next_line, and the shared line counter.                             *)
(*                                                                         *)
(* Text is a sequence of one-character strings.  Python values are tagged  *)
(* records [t, v]: Str (v = text), Bool, Int, Float (v = <<mantissa,       *)
(* number of fraction digits>>, normalised), Seq (list), Map (dict).       *)
(***************************************************************************)
EXTENDS Integers, Sequences, FiniteSets, TLC

VARIABLES data, pos, extended_map, indents, in_quote,
          parsed_map, counter, stack, diags, map_data, status, error,
          consumed

vars == <<data, pos, extended_map, indents, in_quote,
          parsed_map, counter, stack, diags, map_data, status, error,
          consumed>>

(***************************************************************************)
(* Text helpers (Python str methods used by the source)                    *)
(***************************************************************************)
SetMin(S) == CHOOSE m \in S : \A k \in S : m <= k

SetMax(S) == CHOOSE m \in S : \A k \in S : m >= k

\* `c in s`
Has(c, s) == c \in {s[i] : i \in 1..Len(s)}

Whitespace == {" ", "\t", "\n"}

\* str.strip()
strip(s) ==
    LET keep == {i \in 1..Len(s) : s[i] \notin Whitespace}
    IN  IF keep = {} THEN <<>> ELSE SubSeq(s, SetMin(keep), SetMax(keep))

\* str.rstrip(",")
rstrip_comma(s) ==
    LET keep == {i \in 1..Len(s) : s[i] # ","}
    IN  IF keep = {} THEN <<>> ELSE SubSeq(s, 1, SetMax(keep))

\* str.split(sep) for a one-character separator
RECURSIVE split(_, _)
split(s, sep) ==
    LET at == {i \in 1..Len(s) : s[i] = sep}
    IN  IF at = {} THEN <<s>>
        ELSE <<SubSeq(s, 1, SetMin(at) - 1)>>
             \o split(SubSeq(s, SetMin(at) + 1, Len(s)), sep)

\* sep.join(parts)
RECURSIVE join(_, _)
join(parts, sep) ==
    IF Len(parts) = 0 THEN <<>>
    ELSE IF Len(parts) = 1 THEN parts[1]
    ELSE parts[1] \o <<sep>> \o join(Tail(parts), sep)

\* "\t" * n  (the empty string for n <= 0)
Tabs(n) == [i \in 1..(IF n > 0 THEN n ELSE 0) |-> "\t"]

\* data[1:-1]
Slice1m1(s) == IF Len(s) <= 2 THEN <<>> ELSE SubSeq(s, 2, Len(s) - 1)

(***************************************************************************)
(* Values                                                                  *)
(***************************************************************************)
Str(s) == [t |-> "Str", v |-> s]

Bool(b) == [t |-> "Bool", v |-> b]

Int_(n) == [t |-> "Int", v |-> n]

Float(m, e) == [t |-> "Float", v |-> <<m, e>>]

List(s) == [t |-> "Seq", v |-> s]

Dict(f) == [t |-> "Map", v |-> f]

\* the Python '' : result of coercing the empty token and the padding value
EmptyStr == Str(<<>>)

\* map_data before _map_reader has returned
Unset == [t |-> "Unset", v |-> <<>>]

\* raised exception in place of a value
Raise(e) == [t |-> "Raise", v |-> e]

IsRaise(x) == x.t = "Raise"

(***************************************************************************)
(* int() and float() on the modelled alphabet: optional sign, decimal      *)
(* digits, surrounding whitespace ignored.  Exponents, underscores, inf    *)
(* and nan cannot be formed from the characters the inputs use.            *)
(***************************************************************************)
Digits == {"0", "1", "2", "3", "4", "5", "6", "7", "8", "9"}

DigitVal(c) ==
    CASE c = "0" -> 0 [] c = "1" -> 1 [] c = "2" -> 2 [] c = "3" -> 3
      [] c = "4" -> 4 [] c = "5" -> 5 [] c = "6" -> 6 [] c = "7" -> 7
      [] c = "8" -> 8 [] c = "9" -> 9

RECURSIVE DigitsVal(_)
DigitsVal(s) ==
    IF Len(s) = 0 THEN 0
    ELSE 10 * DigitsVal(SubSeq(s, 1, Len(s) - 1)) + DigitVal(s[Len(s)])

Signed(s) == Len(s) > 0 /\ s[1] \in {"-", "+"}

Unsign(s) == IF Signed(s) THEN Tail(s) ELSE s

SignOf(s) == IF Len(s) > 0 /\ s[1] = "-" THEN -1 ELSE 1

AllDigits(s) == \A i \in 1..Len(s) : s[i] \in Digits

\* int(s): an Int value or ValueError
int(s) ==
    LET b == Unsign(strip(s))
    IN  IF Len(b) > 0 /\ AllDigits(b)
        THEN Int_(SignOf(strip(s)) * DigitsVal(b))
        ELSE Raise("ValueError")

RECURSIVE Normalise(_, _)
Normalise(m, e) ==
    IF m = 0 THEN <<0, 0>>
    ELSE IF e > 0 /\ m % 10 = 0 THEN Normalise(m \div 10, e - 1)
    ELSE <<m, e>>

\* float(s): a Float value or ValueError
float(s) ==
    LET b    == Unsign(strip(s))
        dots == {i \in 1..Len(b) : b[i] = "."}
        d    == IF dots = {} THEN Len(b) + 1 ELSE SetMin(dots)
        ip   == SubSeq(b, 1, d - 1)
        fp   == SubSeq(b, d + 1, Len(b))
        n    == Normalise(DigitsVal(ip \o fp), Len(fp))
    IN  IF Cardinality(dots) <= 1 /\ AllDigits(ip) /\ AllDigits(fp)
           /\ Len(ip) + Len(fp) > 0
        THEN Float(SignOf(strip(s)) * n[1], n[2])
        ELSE Raise("ValueError")

(***************************************************************************)
(* change_data_type                                                        *)
(***************************************************************************)
\* variant: the numeric rules tried before the quote rule
change_data_type_numfirst(data_string) ==
    IF data_string = <<>> THEN EmptyStr
    ELSE IF data_string = <<"t", "r", "u", "e">> THEN Bool(TRUE)
    ELSE IF data_string = <<"f", "a", "l", "s", "e">> THEN Bool(FALSE)
    ELSE IF Has(".", data_string) THEN float(data_string)
    ELSE IF Has("\"", data_string) THEN Str(data_string)
    ELSE int(data_string)

\* variant: a token that is no number is kept as text
change_data_type_lenient(data_string) ==
    IF data_string = <<>> THEN EmptyStr
    ELSE IF data_string = <<"t", "r", "u", "e">> THEN Bool(TRUE)
    ELSE IF data_string = <<"f", "a", "l", "s", "e">> THEN Bool(FALSE)
    ELSE IF Has("\"", data_string) THEN Str(data_string)
    ELSE IF Has(".", data_string)
         THEN (IF IsRaise(float(data_string)) THEN Str(data_string)
               ELSE float(data_string))
    ELSE IF IsRaise(int(data_string)) THEN Str(data_string)
    ELSE int(data_string)

\* variant: the quotes of a string are dropped
change_data_type_unquote(data_string) ==
    IF data_string = <<>> THEN EmptyStr
    ELSE IF data_string = <<"t", "r", "u", "e">> THEN Bool(TRUE)
    ELSE IF data_string = <<"f", "a", "l", "s", "e">> THEN Bool(FALSE)
    ELSE IF Has("\"", data_string)
         THEN Str(SelectSeq(data_string, LAMBDA c : c # "\""))
    ELSE IF Has(".", data_string) THEN float(data_string)
    ELSE int(data_string)

change_data_type(data_string) ==
    IF data_string = <<>> THEN EmptyStr
    ELSE IF data_string = <<"t", "r", "u", "e">> THEN Bool(TRUE)
    ELSE IF data_string = <<"f", "a", "l", "s", "e">> THEN Bool(FALSE)
    ELSE IF Has("\"", data_string) THEN Str(data_string)
    ELSE IF Has(".", data_string) THEN float(data_string)
    ELSE int(data_string)

(***************************************************************************)
(* get_next_line: reads parsed_map at the counter (Python index counter is *)
(* TLA+ index counter + 1), increments the counter and returns the line    *)
(* stripped.  ok = FALSE is the IndexError of a read past the end, raised  *)
(* before the counter is incremented.                                      *)
(***************************************************************************)
\* variant: a read past the end yields an empty line
get_next_line_absorb ==
    IF counter >= 0 /\ counter + 1 <= Len(parsed_map)
    THEN [ok |-> TRUE, counter |-> counter + 1,
          line |-> rstrip_comma(strip(parsed_map[counter + 1]))]
    ELSE [ok |-> TRUE, counter |-> counter + 1, line |-> <<>>]

\* variant: the counter is advanced only past a non-empty line
get_next_line_stay ==
    IF counter >= 0 /\ counter + 1 <= Len(parsed_map)
    THEN [ok |-> TRUE,
          counter |-> IF rstrip_comma(strip(parsed_map[counter + 1])) = <<>>
                      THEN counter ELSE counter + 1,
          line |-> rstrip_comma(strip(parsed_map[counter + 1]))]
    ELSE [ok |-> FALSE, counter |-> counter, line |-> <<>>]

get_next_line ==
    IF counter >= 0 /\ counter + 1 <= Len(parsed_map)
    THEN [ok |-> TRUE, counter |-> counter + 1,
          line |-> rstrip_comma(strip(parsed_map[counter + 1]))]
    ELSE [ok |-> FALSE, counter |-> counter, line |-> <<>>]

(***************************************************************************)
(* Frames of the recursion of _map_reader                                  *)
(*   pc = "start" : before `line = get_next_line()` (line 131)             *)
(*   pc = "loop"  : at the while test of the sequence or mapping loop      *)
(*   pc = "next"  : before the get_next_line() that ends an iteration      *)
(*   pc = "call"  : waiting for the nested self._map_reader()              *)
(***************************************************************************)
NewFrame == [pc |-> "start", kind |-> "none", line |-> <<>>,
             return_data |-> <<>>, next_element |-> 0, key |-> <<>>]

Top == stack[Len(stack)]

SetTop(f) == [stack EXCEPT ![Len(stack)] = f]

Reading == status = "reading" /\ Len(stack) > 0

\* variant: a returned list is spliced into the caller's list
Return_extend(v) ==
    IF Len(stack) = 1
    THEN /\ stack' = <<>>
         /\ map_data' = v
         /\ status' = "done"
    ELSE LET p == stack[Len(stack) - 1]
             q == IF p.kind = "seq"
                  THEN [p EXCEPT !.return_data = IF v.t = "Seq" THEN @ \o v.v
                                                 ELSE Append(@, v),
                                 !.pc = "next"]
                  ELSE [p EXCEPT !.return_data = (p.key :> v) @@ @,
                                 !.pc = "next"]
         IN  /\ stack' = Append(SubSeq(stack, 1, Len(stack) - 2), q)
             /\ UNCHANGED <<map_data, status>>

\* the effect of `return v` in the top frame
Return(v) ==
    IF Len(stack) = 1
    THEN /\ stack' = <<>>
         /\ map_data' = v
         /\ status' = "done"
    ELSE LET p == stack[Len(stack) - 1]
             q == IF p.kind = "seq"
                  THEN [p EXCEPT !.return_data = Append(@, v), !.pc = "next"]
                  ELSE [p EXCEPT !.return_data = (p.key :> v) @@ @,
                                 !.pc = "next"]
         IN  /\ stack' = Append(SubSeq(stack, 1, Len(stack) - 2), q)
             /\ UNCHANGED <<map_data, status>>

\* an uncaught exception: no frame handles it, so __init__ is left without
\* map_data; stack keeps the frames of the traceback
Fail(e) ==
    /\ status' = "failed"
    /\ error' = e
    /\ UNCHANGED stack

PreVars == <<pos, extended_map, indents, in_quote>>

ReadVars == <<parsed_map, counter, stack, diags, map_data, status, error,
              consumed>>

(***************************************************************************)
(* _raw_map_to_list: one action per iteration of `for ch in data`          *)
(***************************************************************************)
Scanning == status = "preprocessing" /\ pos <= Len(data)

ch == data[pos]

\* lines 48-52
ScanOpen ==
    /\ Scanning /\ ch = "{"
    /\ extended_map' = extended_map \o <<"{", "\n">> \o Tabs(indents + 1)
    /\ indents' = indents + 1
    /\ pos' = pos + 1
    /\ UNCHANGED <<data, in_quote, ReadVars>>

\* variant: every comma breaks the line
ScanComma_always ==
    /\ Scanning /\ ch = ","
    /\ extended_map' = extended_map \o <<",", "\n">> \o Tabs(indents)
    /\ pos' = pos + 1
    /\ UNCHANGED <<data, indents, in_quote, ReadVars>>

\* lines 53-57
ScanComma ==
    /\ Scanning /\ ch = ","
    /\ extended_map' = IF ~in_quote
                       THEN extended_map \o <<",", "\n">> \o Tabs(indents)
                       ELSE extended_map \o <<",">>
    /\ pos' = pos + 1
    /\ UNCHANGED <<data, indents, in_quote, ReadVars>>

\* variant: the line break of a closing brace is indented before the
\* decrement
ScanClose_late ==
    /\ Scanning /\ ch = "}"
    /\ indents' = indents - 1
    /\ extended_map' = extended_map \o <<"\n">> \o Tabs(indents) \o <<"}">>
    /\ pos' = pos + 1
    /\ UNCHANGED <<data, in_quote, ReadVars>>

\* lines 58-62
ScanClose ==
    /\ Scanning /\ ch = "}"
    /\ indents' = indents - 1
    /\ extended_map' = extended_map \o <<"\n">> \o Tabs(indents - 1) \o <<"}">>
    /\ pos' = pos + 1
    /\ UNCHANGED <<data, in_quote, ReadVars>>

\* lines 63-67
ScanOther ==
    /\ Scanning /\ ch \notin {"{", ",", "}"}
    /\ extended_map' = Append(extended_map, ch)
    /\ in_quote' = IF ch = "\"" THEN ~in_quote ELSE in_quote
    /\ pos' = pos + 1
    /\ UNCHANGED <<data, indents, ReadVars>>

\* line 74 and line 19-20: the list of lines is stored and _map_reader called
SplitLines ==
    /\ status = "preprocessing" /\ pos > Len(data)
    /\ parsed_map' = split(extended_map, "\n")
    /\ status' = "reading"
    /\ stack' = <<NewFrame>>
    /\ UNCHANGED <<data, PreVars, counter, diags, map_data, error, consumed>>

(***************************************************************************)
(* _map_reader                                                             *)
(***************************************************************************)
\* line 131 and the kind decision of line 133
ReadFirstLine ==
    /\ Reading /\ Top.pc = "start"
    /\ LET r == get_next_line
       IN  /\ r.ok
           /\ counter' = r.counter
           /\ consumed' = Append(consumed, counter)
           /\ stack' = SetTop([Top EXCEPT
                  !.pc = "loop", !.line = r.line,
                  !.kind = IF Has("=", r.line) THEN "map" ELSE "seq"])
    /\ UNCHANGED <<data, PreVars, parsed_map, diags, map_data, status, error>>

InSeqLoop == Reading /\ Top.pc = "loop" /\ Top.kind = "seq"

InMapLoop == Reading /\ Top.pc = "loop" /\ Top.kind = "map"

\* lines 148-150: the bracketed number of a line "[n]={"
IndexOf(line) == int(Slice1m1(strip(split(line, "=")[1])))

\* lines 151-152
Padding(next_element, n) ==
    [i \in 1..(IF n > next_element THEN n - next_element ELSE 0) |-> EmptyStr]

\* lines 144-155: an embedded unit, with or without a key
SeqNested ==
    /\ InSeqLoop /\ ~Has("}", Top.line) /\ Has("{", Top.line)
    /\ IF Has("=", Top.line)
       THEN /\ ~IsRaise(IndexOf(Top.line))
            /\ stack' = Append(SetTop([Top EXCEPT
                   !.pc = "call",
                   !.return_data =
                       @ \o Padding(Top.next_element, IndexOf(Top.line).v),
                   !.next_element = IndexOf(Top.line).v + 1]), NewFrame)
       ELSE stack' = Append(SetTop([Top EXCEPT !.pc = "call"]), NewFrame)
    /\ UNCHANGED <<data, PreVars, parsed_map, counter, diags, map_data,
                   status, error, consumed>>

\* lines 157-161
SeqScalar ==
    /\ InSeqLoop /\ ~Has("}", Top.line) /\ ~Has("{", Top.line)
    /\ ~IsRaise(change_data_type(Top.line))
    /\ stack' = SetTop([Top EXCEPT
           !.pc = "next",
           !.next_element = @ + 1,
           !.return_data = Append(@, change_data_type(Top.line))])
    /\ UNCHANGED <<data, PreVars, parsed_map, counter, diags, map_data,
                   status, error, consumed>>

\* line 163 with a non-empty line
SeqNextLine ==
    /\ Reading /\ Top.pc = "next" /\ Top.kind = "seq"
    /\ LET r == get_next_line
       IN  /\ r.ok /\ r.line # <<>>
           /\ counter' = r.counter
           /\ consumed' = Append(consumed, counter)
           /\ stack' = SetTop([Top EXCEPT !.pc = "loop", !.line = r.line])
    /\ UNCHANGED <<data, PreVars, parsed_map, diags, map_data, status, error>>

UnexpectedEnd == [msg |-> "Unexpected end of file", line |-> <<>>, at |-> 0]

\* variant: an empty line ends the unit with an empty dict
SeqEmptyLine_dict ==
    /\ Reading /\ Top.pc = "next" /\ Top.kind = "seq"
    /\ LET r == get_next_line
       IN  /\ r.ok /\ r.line = <<>>
           /\ counter' = r.counter
           /\ consumed' = Append(consumed, counter)
    /\ diags' = Append(diags, UnexpectedEnd)
    /\ Return(Dict(<<>>))
    /\ UNCHANGED <<data, PreVars, parsed_map, error>>

\* lines 163-166: an empty line ends the unit with an empty list
SeqEmptyLine ==
    /\ Reading /\ Top.pc = "next" /\ Top.kind = "seq"
    /\ LET r == get_next_line
       IN  /\ r.ok /\ r.line = <<>>
           /\ counter' = r.counter
           /\ consumed' = Append(consumed, counter)
    /\ diags' = Append(diags, UnexpectedEnd)
    /\ Return(List(<<>>))
    /\ UNCHANGED <<data, PreVars, parsed_map, error>>

\* line 168
SeqReturn ==
    /\ InSeqLoop /\ Has("}", Top.line)
    /\ Return(List(Top.return_data))
    /\ UNCHANGED <<data, PreVars, parsed_map, counter, diags, error, consumed>>

\* lines 179-181
KeyOf(line) == split(line, "=")[1]

\* variant: the text between the first and the second `=`
RestOf_second(line) == split(line, "=")[2]

RestOf(line) == join(Tail(split(line, "=")), "=")

\* lines 183-184: the value of the key is an embedded unit
MapNested ==
    /\ InMapLoop /\ ~Has("}", Top.line) /\ Has("=", Top.line)
    /\ RestOf(Top.line) = <<"{">>
    /\ stack' = Append(SetTop([Top EXCEPT !.pc = "call",
                                          !.key = KeyOf(Top.line)]), NewFrame)
    /\ UNCHANGED <<data, PreVars, parsed_map, counter, diags, map_data,
                   status, error, consumed>>

\* variant: the first value stored for a key is kept
MapScalar_keep ==
    /\ InMapLoop /\ ~Has("}", Top.line) /\ Has("=", Top.line)
    /\ RestOf(Top.line) # <<"{">>
    /\ ~IsRaise(change_data_type(RestOf(Top.line)))
    /\ stack' = SetTop([Top EXCEPT
           !.pc = "next",
           !.key = KeyOf(Top.line),
           !.return_data =
               @ @@ (KeyOf(Top.line) :> change_data_type(RestOf(Top.line)))])
    /\ UNCHANGED <<data, PreVars, parsed_map, counter, diags, map_data,
                   status, error, consumed>>

\* lines 185-188
MapScalar ==
    /\ InMapLoop /\ ~Has("}", Top.line) /\ Has("=", Top.line)
    /\ RestOf(Top.line) # <<"{">>
    /\ ~IsRaise(change_data_type(RestOf(Top.line)))
    /\ stack' = SetTop([Top EXCEPT
           !.pc = "next",
           !.key = KeyOf(Top.line),
           !.return_data =
               (KeyOf(Top.line) :> change_data_type(RestOf(Top.line))) @@ @])
    /\ UNCHANGED <<data, PreVars, parsed_map, counter, diags, map_data,
                   status, error, consumed>>

\* variant: an unhandled line ends the unit
MapUnhandled_abort ==
    /\ InMapLoop /\ ~Has("}", Top.line) /\ ~Has("=", Top.line)
    /\ diags' = Append(diags, [msg |-> "Unhandled line", line |-> Top.line,
                               at |-> counter])
    /\ Return(Dict(Top.return_data))
    /\ UNCHANGED <<data, PreVars, parsed_map, counter, error, consumed>>

\* variant: after the prints the loop goes on with the same line
MapUnhandled_retry ==
    /\ InMapLoop /\ ~Has("}", Top.line) /\ ~Has("=", Top.line)
    /\ diags' = Append(diags, [msg |-> "Unhandled line", line |-> Top.line,
                               at |-> counter])
    /\ UNCHANGED <<data, PreVars, parsed_map, counter, stack, map_data,
                   status, error, consumed>>

\* lines 190-194: the two prints of an unhandled line
MapUnhandled ==
    /\ InMapLoop /\ ~Has("}", Top.line) /\ ~Has("=", Top.line)
    /\ diags' = Append(diags, [msg |-> "Unhandled line", line |-> Top.line,
                               at |-> counter])
    /\ stack' = SetTop([Top EXCEPT !.pc = "next"])
    /\ UNCHANGED <<data, PreVars, parsed_map, counter, map_data, status,
                   error, consumed>>

\* line 196
MapNextLine ==
    /\ Reading /\ Top.pc = "next" /\ Top.kind = "map"
    /\ LET r == get_next_line
       IN  /\ r.ok
           /\ counter' = r.counter
           /\ consumed' = Append(consumed, counter)
           /\ stack' = SetTop([Top EXCEPT !.pc = "loop", !.line = r.line])
    /\ UNCHANGED <<data, PreVars, parsed_map, diags, map_data, status, error>>

\* line 198
MapReturn ==
    /\ InMapLoop /\ Has("}", Top.line)
    /\ Return(Dict(Top.return_data))
    /\ UNCHANGED <<data, PreVars, parsed_map, counter, diags, error, consumed>>

\* line 127: the read past the end of parsed_map is not caught anywhere
RaiseIndexError ==
    /\ Reading /\ Top.pc \in {"start", "next"}
    /\ ~get_next_line.ok
    /\ counter' = get_next_line.counter
    /\ Fail("IndexError")
    /\ UNCHANGED <<data, PreVars, parsed_map, diags, map_data, consumed>>

\* the token whose conversion is attempted at the top frame's line
Raises ==
    \/ /\ InSeqLoop /\ ~Has("}", Top.line) /\ Has("{", Top.line)
       /\ Has("=", Top.line) /\ IsRaise(IndexOf(Top.line))
    \/ /\ InSeqLoop /\ ~Has("}", Top.line) /\ ~Has("{", Top.line)
       /\ IsRaise(change_data_type(Top.line))
    \/ /\ InMapLoop /\ ~Has("}", Top.line) /\ Has("=", Top.line)
       /\ RestOf(Top.line) # <<"{">>
       /\ IsRaise(change_data_type(RestOf(Top.line)))

\* lines 121, 123, 150: int() or float() raises; nothing catches it
RaiseValueError ==
    /\ Raises
    /\ Fail("ValueError")
    /\ UNCHANGED <<data, PreVars, parsed_map, counter, diags, map_data,
                   consumed>>

(***************************************************************************)
(* Inputs: the first line of the file, as returned by readline()           *)
(***************************************************************************)
O == <<"{">>

C == <<"}">>

Cm == <<",">>

Eq == <<"=">>

Q == <<"\"">>

\* --- general family: units built from entries, well-formed or not -------
\* total number of entries (at all nesting levels) of a general input
MaxEntries == 2

\* entries without a nested unit: 1, g, the empty entry, a=1, b=2,
\* a="x,y", [4]=5
FlatEntries ==
    { <<"1">>, <<"g">>, <<>>, <<"a", "=", "1">>, <<"b", "=", "2">>,
      <<"a", "=", "\"", "x", ",", "y", "\"">>,
      <<"[", "4", "]", "=", "5">> }

\* what precedes the brace of a nested unit: nothing, a=, [4]=
Openers == { <<>>, <<"a", "=">>, <<"[", "4", "]", "=">> }

RECURSIVE Entries(_), Bodies(_)
\* the entries that hold exactly n entries, themselves included
Entries(n) ==
    IF n = 1 THEN FlatEntries \cup {op \o O \o C : op \in Openers}
    ELSE {op \o O \o b \o C : op \in Openers, b \in Bodies(n - 1)}

\* the comma-separated entry lists that hold exactly n entries
Bodies(n) ==
    Entries(n) \cup
    UNION {{e \o Cm \o b : e \in Entries(k), b \in Bodies(n - k)}
           : k \in 1..(n - 1)}

\* a text without its trailing closing braces
StripClosers(s) ==
    LET keep == {i \in 1..Len(s) : s[i] # "}"}
    IN  IF keep = {} THEN <<>> ELSE SubSeq(s, 1, SetMax(keep))

\* a unit with its closing brace, with the closing brace missing, and with
\* the closing braces of its last nested units missing too
GeneralInputs ==
    LET bodies == {<<>>} \cup UNION {Bodies(n) : n \in 1..MaxEntries}
    IN  {O \o b \o C : b \in bodies}
        \cup {O \o b : b \in bodies}
        \cup {O \o StripClosers(b) : b \in bodies}

\* --- scalar family: one entry whose value is an arbitrary token -----------
\* number of pieces of a token
MaxPieces == 3

Pieces == { <<"t", "r", "u", "e">>, <<"f", "a", "l", "s", "e">>, <<"1">>,
            <<"0">>, <<"-">>, <<".">>, <<"\"">>, <<"x">> }

RECURSIVE Tokens(_)
Tokens(n) ==
    IF n = 0 THEN {<<>>}
    ELSE Tokens(n - 1) \cup {p \o tk : p \in Pieces, tk \in Tokens(n - 1)}

\* the token as the value of key a, and as the only element of a list
TokenInputs ==
    {O \o <<"a", "=">> \o tk \o C : tk \in Tokens(MaxPieces)}
    \cup {O \o tk \o C : tk \in Tokens(MaxPieces)}

\* --- well-formed family: balanced units with their reference value --------
\* number of nodes (units and scalars) of a well-formed input
MaxNodes == 4

\* text and value of the scalars 1, "x" and "="; lead: the text holds a `=`
WFScalars ==
    { [text |-> <<"1">>, val |-> Int_(1), lead |-> FALSE, bad |-> FALSE],
      [text |-> <<"\"", "x", "\"">>, val |-> Str(<<"\"", "x", "\"">>),
       lead |-> FALSE, bad |-> FALSE],
      [text |-> <<"\"", "=", "\"">>, val |-> Str(<<"\"", "=", "\"">>),
       lead |-> TRUE, bad |-> FALSE] }

WFKeys == << <<"a">>, <<"b">> >>

RECURSIVE WFElems(_), WFSeqBodies(_), WFMapBodies(_, _)
\* elements of n nodes: a scalar, or a non-empty list or mapping unit.
\* bad: some list unit in it starts with a scalar whose text holds a `=`
WFElems(n) ==
    IF n = 1 THEN WFScalars
    ELSE {[text |-> O \o b.text \o C, val |-> List(b.val),
           lead |-> FALSE, bad |-> b.bad \/ b.lead]
              : b \in WFSeqBodies(n - 1)}
         \cup {[text |-> O \o b.text \o C, val |-> Dict(b.val),
               lead |-> FALSE, bad |-> b.bad]
              : b \in WFMapBodies(n - 1, 1)}

\* list bodies of n nodes with the list of the element values
WFSeqBodies(n) ==
    {[text |-> e.text, val |-> <<e.val>>, lead |-> e.lead, bad |-> e.bad]
        : e \in WFElems(n)}
    \cup UNION {{[text |-> e.text \o Cm \o b.text, val |-> <<e.val>> \o b.val,
                 lead |-> e.lead, bad |-> e.bad \/ b.bad]
                   : e \in WFElems(k), b \in WFSeqBodies(n - k)}
               : k \in 1..(n - 1)}

\* mapping bodies of n nodes over the keys WFKeys[i..], keys in order,
\* with the function from key to value
WFMapBodies(n, i) ==
    UNION {
      {[text |-> WFKeys[j] \o Eq \o e.text, val |-> (WFKeys[j] :> e.val),
        lead |-> FALSE, bad |-> e.bad]
          : e \in WFElems(n)}
      \cup UNION {{[text |-> WFKeys[j] \o Eq \o e.text \o Cm \o b.text,
                   val |-> (WFKeys[j] :> e.val) @@ b.val,
                   lead |-> FALSE, bad |-> e.bad \/ b.bad]
                     : e \in WFElems(k), b \in WFMapBodies(n - k, j + 1)}
                 : k \in 1..(n - 1)}
      : j \in i..Len(WFKeys)}

\* --- worked examples of the file format ----------------------------------
\* {a=1,b=2,c="x"}
ExFlat ==
    O \o <<"a", "=", "1", ",", "b", "=", "2", ",", "c", "=", "\"", "x", "\"">>
      \o C

\* {a="x,y",b=2}
ExQuoted ==
    O \o <<"a", "=", "\"", "x", ",", "y", "\"", ",", "b", "=", "2">> \o C

\* {1,2,[4]=5}
ExSparse == O \o <<"1", ",", "2", ",", "[", "4", "]", "=", "5">> \o C

\* {a={1,2},b={x=1}}
ExNested ==
    O \o <<"a", "=", "{", "1", ",", "2", "}", ",",
           "b", "=", "{", "x", "=", "1", "}">> \o C

\* {a=true,b=false,c=3.5,d=3}
ExTyped ==
    O \o <<"a", "=", "t", "r", "u", "e", ",", "b", "=", "f", "a", "l", "s", "e",
           ",", "c", "=", "3", ".", "5", ",", "d", "=", "3">> \o C

\* {a=1,g,b=2}: a line with neither `=` nor a brace between two entries
ExGarbage == O \o <<"a", "=", "1", ",", "g", ",", "b", "=", "2">> \o C

\* {a=1,{x=5},b=2}: a unit without a key between two entries
ExKeyless ==
    O \o <<"a", "=", "1", ",", "{", "x", "=", "5", "}", ",", "b", "=", "2">>
      \o C

\* {a=1,b=2,a=3}: a key written twice
ExDuplicate ==
    O \o <<"a", "=", "1", ",", "b", "=", "2", ",", "a", "=", "3">> \o C

\* {{1},{2},[5]={3}}: two units without an index, then an indexed unit
ExTwoUnits ==
    O \o <<"{", "1", "}", ",", "{", "2", "}", ",",
           "[", "5", "]", "=", "{", "3", "}">> \o C

\* {a="x}y",b=2}: a closing brace inside a quoted string
ExQuotedBrace ==
    O \o <<"a", "=", "\"", "x", "}", "y", "\"", ",", "b", "=", "2">> \o C

\* {a="b=c=",b=1}: a value that holds `=` characters
ExEquals ==
    O \o <<"a", "=", "\"", "b", "=", "c", "=", "\"", ",", "b", "=", "1">>
      \o C

\* {a="{"}: a value that holds an opening brace and is not `{` itself
ExQuotedOpen == O \o <<"a", "=", "\"", "{", "\"">> \o C

\* {1}}: a closing brace without an open unit
ExStray == O \o <<"1">> \o C \o C

\* {1,2} with the newline that ends the line of the file
ExNewline == O \o <<"1", ",", "2">> \o C \o <<"\n">>

Examples ==
    {ExFlat, ExQuoted, ExSparse, ExNested, ExTyped, ExGarbage, ExKeyless,
     ExDuplicate, ExTwoUnits, ExQuotedBrace, ExEquals, ExQuotedOpen,
     ExStray, ExNewline}

\* the well-formed examples with their reference values
WFExamples ==
    { [text |-> ExFlat,
       val |-> Dict((<<"a">> :> Int_(1)) @@ (<<"b">> :> Int_(2))
                    @@ (<<"c">> :> Str(<<"\"", "x", "\"">>))),
       lead |-> FALSE, bad |-> FALSE],
      [text |-> ExNested,
       val |-> Dict((<<"a">> :> List(<<Int_(1), Int_(2)>>))
                    @@ (<<"b">> :> Dict(<<"x">> :> Int_(1)))),
       lead |-> FALSE, bad |-> FALSE] }

\* the well-formed inputs (one unit each)
WFUnits == UNION {WFElems(n) : n \in 2..MaxNodes} \cup WFExamples

\* each well-formed input with its reference tree
WFTable == {[text |-> w.text, val |-> w.val] : w \in WFUnits}

WFInputs == {w.text : w \in WFUnits}

\* those in which no list unit starts with a scalar that holds a `=`
WFPlainInputs == {w.text : w \in {u \in WFUnits : ~u.bad}}

Inputs == GeneralInputs \cup TokenInputs \cup WFInputs \cup Examples

Init ==
    /\ data \in Inputs
    /\ pos = 1
    /\ extended_map = <<>>
    /\ indents = 0
    /\ in_quote = FALSE
    /\ parsed_map = <<>>
    /\ counter = 1
    /\ stack = <<>>
    /\ diags = <<>>
    /\ map_data = Unset
    /\ status = "preprocessing"
    /\ error = ""
    /\ consumed = <<>>

Next ==
    \/ ScanOpen
    \/ ScanComma
    \/ ScanClose
    \/ ScanOther
    \/ SplitLines
    \/ ReadFirstLine
    \/ SeqNested
    \/ SeqScalar
    \/ SeqNextLine
    \/ SeqEmptyLine
    \/ SeqReturn
    \/ MapNested
    \/ MapScalar
    \/ MapUnhandled
    \/ MapNextLine
    \/ MapReturn
    \/ RaiseIndexError
    \/ RaiseValueError

Spec == Init /\ [][Next]_vars

\* __init__ has ended: map_data is set, or an exception has left it unset
Terminated == status \in {"done", "failed"}

\* the program is sequential and runs until __init__ ends: it takes steps
\* forever or it has terminated.  A step is possible in every state that is
\* not terminated (NotStuck below), so this is weak fairness of Next.
LiveSpec == Spec /\ ([]<><<Next>>_vars \/ <>[]Terminated)

(***************************************************************************)
(* Vocabulary of the properties                                            *)
(***************************************************************************)
\* line i of parsed_map (TLA+ index) as get_next_line hands it to the reader
Line(i) == rstrip_comma(strip(parsed_map[i]))

\* the indentation the preprocessor gave line i: its brace depth
LeadTabs(i) ==
    LET other == {k \in 1..Len(parsed_map[i]) : parsed_map[i][k] # "\t"}
    IN  IF other = {} THEN Len(parsed_map[i]) ELSE SetMin(other) - 1

Count(c, s) == Cardinality({i \in 1..Len(s) : s[i] = c})

\* a frame has returned to its caller
Returns == Len(stack') < Len(stack)

\* the value the returning frame handed to its caller
Returned ==
    IF Len(stack) = 1 THEN map_data'
    ELSE LET p == stack'[Len(stack')]
         IN  IF p.kind = "seq" THEN p.return_data[Len(p.return_data)]
             ELSE p.return_data[p.key]

Truncated == \E k \in 1..Len(diags) : diags[k] = UnexpectedEnd

T1 == Int_(1)

KeyA == <<"a">>

KeyB == <<"b">>

(***************************************************************************)
(* C1  Sparse-index padding: {1,2,[4]=5} parses to [1, 2, "", "", 5], and  *)
(* in a sequence unit an entry with a bracketed index, scalar or nested,   *)
(* is padded and read instead of failing the parse.                        *)
(***************************************************************************)
\* a line that starts with a bracketed integer index followed by `=`
Indexed(line) ==
    /\ Has("=", line)
    /\ Len(KeyOf(line)) >= 3
    /\ KeyOf(line)[1] = "[" /\ KeyOf(line)[Len(KeyOf(line))] = "]"
    /\ AllDigits(Slice1m1(KeyOf(line)))

C1_SparseIndexPadding ==
    /\ (data = ExSparse /\ status \in {"done", "failed"})
          => /\ status = "done"
             /\ map_data = List(<<T1, Int_(2), EmptyStr, EmptyStr, Int_(5)>>)
    /\ (status = "failed" /\ Len(stack) > 0 /\ Top.kind = "seq"
           /\ Count("{", data) = Count("}", data)
           /\ \A k \in 1..Len(Top.return_data) : Top.return_data[k] # EmptyStr)
          => ~Indexed(Top.line)

(***************************************************************************)
(* C2  Every return of the reader, top-level or nested, normal or after a  *)
(* diagnostic, comes right after the read of a line that holds the unit's  *)
(* closing brace: on return the counter is one past that line.             *)
(***************************************************************************)
C2_ReturnAfterClosingBrace ==
    [][Returns =>
          /\ consumed' # <<>>
          /\ consumed'[Len(consumed')] = counter' - 1
          /\ Has("}", parsed_map[counter'])]_vars

(***************************************************************************)
(* C3  In a mapping unit a line with neither `=` nor `}` is skipped: one   *)
(* line, one diagnostic, and every key=value entry of the unit before and  *)
(* after it is in the returned Mapping with its value.                     *)
(***************************************************************************)
\* the top-level unit is a mapping
TopIsMap == Len(parsed_map) >= 2 /\ Has("=", Line(2))

\* entries of the top-level unit: the lines at brace depth 1
TopEntries ==
    {i \in 2..Len(parsed_map) : LeadTabs(i) = 1 /\ ~Has("}", Line(i))}

TopGarbage == {i \in TopEntries : ~Has("=", Line(i))}

\* the scalar key=value entries of the top-level unit (last one of each key)
TopKeyed ==
    {i \in TopEntries :
        /\ Has("=", Line(i)) /\ RestOf(Line(i)) # <<"{">>
        /\ \A j \in TopEntries : j > i => ~Has("=", Line(j))
                                          \/ KeyOf(Line(j)) # KeyOf(Line(i))}

\* the claim as stated, for the top-level unit of an input whose parse
\* returned without a truncated sequence
C3_SkipKeepsEntries ==
    (status = "done" /\ TopIsMap /\ TopGarbage # {} /\ ~Truncated
       /\ Count("{", data) = Count("}", data))
      => /\ map_data.t = "Map"
         /\ \A g \in TopGarbage :
               Cardinality({k \in 1..Len(diags) :
                               diags[k].line = Line(g) /\ diags[k].at = g}) = 1
         /\ \A i \in TopKeyed :
               /\ KeyOf(Line(i)) \in DOMAIN map_data.v
               /\ map_data.v[KeyOf(Line(i))] = change_data_type(RestOf(Line(i)))

\* a top-level mapping unit of scalar entries: no line before its closing
\* brace opens a unit
TopClose == SetMin({i \in 2..Len(parsed_map) : Has("}", Line(i))})

FlatTopMap ==
    /\ TopIsMap
    /\ \E i \in 2..Len(parsed_map) : Has("}", Line(i))
    /\ \A i \in 2..(TopClose - 1) : ~Has("{", Line(i))

FlatKeyed == {i \in 2..(TopClose - 1) : Has("=", Line(i))}

FlatGarbage == {i \in 2..(TopClose - 1) : ~Has("=", Line(i))}

\* the k-th smallest element of a set of numbers
RECURSIVE Nth(_, _)
Nth(S, k) == IF k = 1 THEN SetMin(S) ELSE Nth(S \ {SetMin(S)}, k - 1)

\* the mapping of a flat unit: the value of the last line of each key
FlatMapping ==
    [k \in {KeyOf(Line(i)) : i \in FlatKeyed} |->
        change_data_type(RestOf(Line(
            SetMax({i \in FlatKeyed : KeyOf(Line(i)) = k}))))]

FlatResult ==
    FlatTopMap =>
      /\ status = "done" =>
            /\ map_data = Dict(FlatMapping)
            /\ counter = TopClose
            /\ Len(diags) = Cardinality(FlatGarbage)
            /\ \A k \in 1..Len(diags) :
                  diags[k] = [msg |-> "Unhandled line",
                              line |-> Line(Nth(FlatGarbage, k)),
                              at |-> Nth(FlatGarbage, k)]
      /\ status = "failed" =>
            /\ error = "ValueError"
            /\ \E i \in FlatKeyed : IsRaise(change_data_type(RestOf(Line(i))))

\* amended: the skip touches nothing but the diagnostics, the next read
\* takes the following line, and a unit of scalar entries returns all its
\* key=value entries
C3_SkipKeepsEntriesFlat ==
    /\ []FlatResult
    /\ [][/\ (InMapLoop /\ ~Has("}", Top.line) /\ ~Has("=", Top.line))
               => /\ diags' = Append(diags, [msg |-> "Unhandled line",
                                              line |-> Top.line, at |-> counter])
                  /\ stack' = SetTop([Top EXCEPT !.pc = "next"])
                  /\ counter' = counter /\ status' = "reading"
          /\ (Reading /\ Top.pc = "next" /\ Top.kind = "map"
                  /\ counter < Len(parsed_map))
               => /\ counter' = counter + 1
                  /\ stack' = SetTop([Top EXCEPT !.pc = "loop",
                                                  !.line = Line(counter + 1)])
                  /\ diags' = diags /\ status' = "reading"
          ]_vars

C3_Witness ==
    /\ data = ExGarbage /\ status = "done" /\ Len(diags) = 1
    /\ map_data = Dict((KeyA :> T1) @@ (KeyB :> Int_(2)))

(***************************************************************************)
(* C4  Input with a missing closing brace always ends in the hard failure  *)
(* of a read past the end of the lines: the parse never returns a Value    *)
(* for it and no recovery path absorbs the condition.                      *)
(***************************************************************************)
Unbalanced == Count("{", data) > Count("}", data)

C4_UnbalancedFails == Unbalanced => status # "done"

\* amended: a read past the end is a hard failure that nothing absorbs
C4_ReadPastEndFails ==
    [][/\ (Reading /\ Top.pc \in {"start", "next"}
               /\ counter >= Len(parsed_map))
            => /\ status' = "failed" /\ error' = "IndexError"
               /\ map_data' = Unset
               /\ UNCHANGED <<counter, diags, stack>>
       /\ status = "failed" => FALSE]_vars

C4_Witness ==
    /\ Unbalanced /\ status = "failed" /\ error = "IndexError"
    /\ counter = Len(parsed_map) /\ Len(stack) >= 2 /\ map_data = Unset

(***************************************************************************)
(* C5  Malformed sequence truncation: an empty line read by a sequence     *)
(* unit before its terminator emits a diagnostic, the unit resolves to an  *)
(* empty Sequence that its enclosing unit takes as the value, and nothing  *)
(* fatal is raised.                                                        *)
(***************************************************************************)
\* the top frame reads an empty line as a line of a sequence unit
SeqReadsEmpty ==
    /\ Reading /\ consumed' # consumed
    /\ get_next_line.line = <<>>
    /\ Top.pc = "start" \/ (Top.pc = "next" /\ Top.kind = "seq")

C5_EmptyLineTruncates ==
    [][SeqReadsEmpty =>
          /\ diags' = Append(diags, UnexpectedEnd)
          /\ Returns /\ Returned = List(<<>>)
          /\ status' # "failed"]_vars

(***************************************************************************)
(* C6  Cursor monotonicity: at every step, in every frame of the           *)
(* recursion, the counter never decreases, grows by exactly one with each  *)
(* line read, and no line index is read twice.                             *)
(***************************************************************************)
NoRepeat(s) == \A i, j \in 1..Len(s) : i < j => s[i] < s[j]

C6_CursorMonotonic ==
    /\ [](NoRepeat(consumed) /\ Len(consumed) = counter - 1)
    /\ [][/\ counter' >= counter
          /\ consumed' # consumed
               => consumed' = Append(consumed, counter)
                  /\ counter' = counter + 1
          /\ consumed' = consumed => counter' = counter]_vars

C6_Witness ==
    /\ status = "done" /\ Len(consumed) >= 5
    /\ map_data.t = "Map" /\ KeyA \in DOMAIN map_data.v
    /\ map_data.v[KeyA].t = "Seq" /\ map_data.v[KeyA].v # <<>>

(***************************************************************************)
(* C7  A comma read while the quote flag is set gets no line break after   *)
(* it: the lines are broken only at braces and at commas outside quotes,   *)
(* and {a="x,y",b=2} is a mapping of two entries whose a holds the quoted  *)
(* text with its comma.                                                    *)
(***************************************************************************)
QuotedXY == Str(<<"\"", "x", ",", "y", "\"">>)

\* the quote flag when the character at position i is scanned
QuoteFlagAt(i) == Count("\"", SubSeq(data, 1, i - 1)) % 2 = 1

\* the positions of data at which a line break is inserted (a newline of
\* the input itself is copied and ends a line too)
Breaks ==
    {i \in 1..Len(data) :
        \/ data[i] \in {"{", "}"}
        \/ data[i] = "," /\ ~QuoteFlagAt(i)}

C7_NoBreakInQuotes ==
    /\ [](status # "preprocessing" =>
            /\ Len(parsed_map) = 1 + Cardinality(Breaks) + Count("\n", data)
            /\ (data = ExQuoted /\ status = "done")
                  => map_data = Dict((KeyA :> QuotedXY) @@ (KeyB :> Int_(2))))
    /\ [][(Scanning /\ ch = "," /\ in_quote)
             => extended_map' = Append(extended_map, ",")]_vars

C7_Witness ==
    /\ data = ExQuoted /\ status = "done" /\ Len(parsed_map) = 4
    /\ map_data.v[KeyA] = QuotedXY

(***************************************************************************)
(* C8  A well-formed balanced input of scalar entries and nested non-empty *)
(* units parses to its reference tree: Mappings of the keys, Sequences of  *)
(* the elements in order, recursively.                                     *)
(***************************************************************************)
C8_ReferenceTree ==
    (data \in WFInputs /\ status \in {"done", "failed"})
      => /\ status = "done"
         /\ [text |-> data, val |-> map_data] \in WFTable

\* amended: provided no list unit starts with a scalar that holds a `=`
C8_ReferenceTreePlain ==
    (data \in WFPlainInputs /\ status \in {"done", "failed"})
      => /\ status = "done"
         /\ diags = <<>>
         /\ [text |-> data, val |-> map_data] \in WFTable

C8_Witness ==
    /\ data = ExNested /\ data \in WFPlainInputs /\ status = "done"
    /\ map_data = Dict((KeyA :> List(<<T1, Int_(2)>>))
                       @@ (KeyB :> Dict(<<"x">> :> T1)))

(***************************************************************************)
(* C9  change_data_type applies five rules in a fixed order to every       *)
(* token: empty gives the empty value, true/false give Bool, a token with  *)
(* a quote anywhere is a String kept verbatim (before any numeric rule),   *)
(* a token with a dot is a Float, anything else an Int.                    *)
(***************************************************************************)
\* the top frame is about to convert a scalar token
SeqToken == InSeqLoop /\ ~Has("}", Top.line) /\ ~Has("{", Top.line)

MapToken ==
    /\ InMapLoop /\ ~Has("}", Top.line) /\ Has("=", Top.line)
    /\ RestOf(Top.line) # <<"{">>

\* what the conversion step left: the stored value, or the exception
SeqStored ==
    IF status' = "failed" THEN Raise(error')
    ELSE LET rd == stack'[Len(stack')].return_data IN rd[Len(rd)]

MapStored ==
    IF status' = "failed" THEN Raise(error')
    ELSE stack'[Len(stack')].return_data[KeyOf(Top.line)]

Precedence(tok, r) ==
    IF tok = <<>> THEN r = EmptyStr
    ELSE IF tok = <<"t", "r", "u", "e">> THEN r = Bool(TRUE)
    ELSE IF tok = <<"f", "a", "l", "s", "e">> THEN r = Bool(FALSE)
    ELSE IF Has("\"", tok) THEN r = Str(tok)
    ELSE IF Has(".", tok) THEN r.t = "Float" \/ r = Raise("ValueError")
    ELSE r.t = "Int" \/ r = Raise("ValueError")

C9_CoercionPrecedence ==
    [][/\ SeqToken => Precedence(Top.line, SeqStored)
       /\ MapToken => Precedence(RestOf(Top.line), MapStored)]_vars

\* {a="1"} : a quoted number stays a String
C9_Witness ==
    /\ status = "done" /\ map_data.t = "Map" /\ KeyA \in DOMAIN map_data.v
    /\ map_data.v[KeyA] = Str(<<"\"", "1", "\"">>)

(***************************************************************************)
(* C10  A token that reaches the numeric rules (not empty, not true or     *)
(* false, no quote) and is no numeric literal fails the whole parse: the   *)
(* failure is caught at no level and the top-level call returns no value.  *)
(***************************************************************************)
ReachesNumeric(tok) ==
    /\ tok # <<>>
    /\ tok \notin {<<"t", "r", "u", "e">>, <<"f", "a", "l", "s", "e">>}
    /\ ~Has("\"", tok)

\* an optional sign, then digits with at most one dot and at least one digit
NumericLiteral(tok) ==
    LET b == IF Len(tok) > 0 /\ tok[1] \in {"-", "+"} THEN Tail(tok) ELSE tok
    IN  /\ \A i \in 1..Len(b) : b[i] \in Digits \cup {"."}
        /\ Count(".", b) <= 1
        /\ Count(".", b) < Len(b)

Aborts ==
    /\ status' = "failed" /\ error' = "ValueError" /\ map_data' = Unset
    /\ UNCHANGED <<stack, counter, diags>>

C10_BadNumberAborts ==
    [][/\ (SeqToken /\ ReachesNumeric(Top.line)
               /\ ~NumericLiteral(Top.line)) => Aborts
       /\ (MapToken /\ ReachesNumeric(RestOf(Top.line))
               /\ ~NumericLiteral(RestOf(Top.line))) => Aborts
       /\ status = "failed" => FALSE]_vars

\* the failure happens inside a nested unit
C10_Witness ==
    /\ status = "failed" /\ error = "ValueError" /\ map_data = Unset
    /\ Len(stack) >= 2 /\ Top.line = <<"g">>

(***************************************************************************)
(* C11  Duplicate keys are last-write-wins: storing a value under a key of *)
(* a mapping unit, scalar or nested, replaces whatever the key held,       *)
(* leaves every other key alone and emits no diagnostic, so the returned   *)
(* Mapping holds for each key the value of its last line.                  *)
(***************************************************************************)
\* g is f with key k written, every other key kept
Overwrites(f, g, k) ==
    /\ DOMAIN g = DOMAIN f \cup {k}
    /\ \A j \in DOMAIN f \ {k} : g[j] = f[j]

C11_LastWriteWins ==
    /\ []((FlatTopMap /\ status = "done") => map_data = Dict(FlatMapping))
    /\ []((data = ExDuplicate /\ status = "done")
            => /\ map_data = Dict((KeyA :> Int_(3)) @@ (KeyB :> Int_(2)))
               /\ diags = <<>>)
    /\ [][/\ (MapToken /\ status' # "failed")
                => /\ Overwrites(Top.return_data,
                                 stack'[Len(stack')].return_data,
                                 KeyOf(Top.line))
                   /\ MapStored = change_data_type(RestOf(Top.line))
                   /\ diags' = diags
          /\ (Returns /\ Len(stack) >= 2
                  /\ stack[Len(stack) - 1].kind = "map")
                => /\ Overwrites(stack[Len(stack) - 1].return_data,
                                 stack'[Len(stack')].return_data,
                                 stack[Len(stack) - 1].key)
                   /\ Returned.t \in {"Seq", "Map"}
                   /\ diags' \in {diags, Append(diags, UnexpectedEnd)}
          ]_vars

C11_Witness ==
    /\ data = ExDuplicate /\ status = "done" /\ diags = <<>>
    /\ map_data = Dict((KeyA :> Int_(3)) @@ (KeyB :> Int_(2)))

(***************************************************************************)
(* C12  Idempotence of coercion: every value change_data_type produces is  *)
(* produced again from its canonical text: true/false for a Bool, the      *)
(* decimal digits for an Int, the verbatim text for a String, the empty    *)
(* token for the empty value, the decimal literal for a Float.             *)
(***************************************************************************)
DigitChar(d) ==
    CASE d = 0 -> "0" [] d = 1 -> "1" [] d = 2 -> "2" [] d = 3 -> "3"
      [] d = 4 -> "4" [] d = 5 -> "5" [] d = 6 -> "6" [] d = 7 -> "7"
      [] d = 8 -> "8" [] d = 9 -> "9"

\* the decimal digits of a natural number, no leading zero
RECURSIVE DigitsOf(_)
DigitsOf(n) ==
    IF n < 10 THEN <<DigitChar(n)>>
    ELSE DigitsOf(n \div 10) \o <<DigitChar(n % 10)>>

Abs(n) == IF n < 0 THEN -n ELSE n

Minus(n) == IF n < 0 THEN <<"-">> ELSE <<>>

RECURSIVE Pow10(_)
Pow10(e) == IF e = 0 THEN 1 ELSE 10 * Pow10(e - 1)

\* the digits of n, zeros added on the left up to w digits
ZeroPad(n, w) ==
    [i \in 1..(IF w > Len(DigitsOf(n)) THEN w - Len(DigitsOf(n)) ELSE 0)
        |-> "0"] \o DigitsOf(n)

\* the canonical text of a scalar value
Canonical(v) ==
    CASE v.t = "Bool" -> (IF v.v THEN <<"t", "r", "u", "e">>
                          ELSE <<"f", "a", "l", "s", "e">>)
      [] v.t = "Str" -> v.v
      [] v.t = "Int" -> Minus(v.v) \o DigitsOf(Abs(v.v))
      [] v.t = "Float" ->
            LET m == Abs(v.v[1])
                e == v.v[2]
            IN  Minus(v.v[1]) \o DigitsOf(m \div Pow10(e)) \o <<".">>
                \o (IF e = 0 THEN <<"0">> ELSE ZeroPad(m % Pow10(e), e))

Idempotent(v) == change_data_type(Canonical(v)) = v

C12_CoercionIdempotent ==
    [][/\ (SeqToken /\ status' # "failed") => Idempotent(SeqStored)
       /\ (MapToken /\ status' # "failed") => Idempotent(MapStored)]_vars

\* {a=-.1}: the token is not the canonical text -0.1 of its value
C12_Witness ==
    /\ data = O \o <<"a", "=", "-", ".", "1">> \o C /\ status = "done"
    /\ map_data = Dict(KeyA :> Float(-1, 1))
    /\ Canonical(Float(-1, 1)) = <<"-", "0", ".", "1">>
    /\ Idempotent(map_data.v[KeyA])

(***************************************************************************)
(* C13  In a sequence unit every appended entry without an index, nested   *)
(* unit or scalar, increments next_element, so next_element is the number  *)
(* of elements appended so far, and a unit with index n >= next_element    *)
(* lands at position n: {{1},{2},[5]={3}} gives a Sequence of length 6     *)
(* with the indexed unit at position 5.                                    *)
(***************************************************************************)
\* the top frame is about to read a unit with a bracketed index
SeqIndexed ==
    /\ InSeqLoop /\ ~Has("}", Top.line) /\ Has("{", Top.line)
    /\ Has("=", Top.line) /\ ~IsRaise(IndexOf(Top.line))

C13_NextIndexCounts ==
    /\ [](\A i \in 1..Len(stack) :
             (/\ status = "reading" /\ data \in WFInputs
              /\ stack[i].kind = "seq" /\ stack[i].pc \in {"loop", "next"})
                => stack[i].next_element = Len(stack[i].return_data))
    /\ [][(SeqIndexed /\ IndexOf(Top.line).v >= Top.next_element)
             => Len(stack'[Len(stack)].return_data) = IndexOf(Top.line).v
          ]_vars
    /\ []((data = ExTwoUnits /\ status = "done")
            => map_data = List(<<List(<<T1>>), List(<<Int_(2)>>), EmptyStr,
                                 EmptyStr, EmptyStr, List(<<Int_(3)>>)>>))

(***************************************************************************)
(* C14  The empty-line rule holds for the first line of a unit too: a unit *)
(* whose first line is empty, as in {a={}}, emits a diagnostic and         *)
(* resolves to an empty Sequence, never to a Sequence that holds an        *)
(* empty-string element.                                                   *)
(***************************************************************************)
\* {a={}}
ExEmptyUnit == O \o <<"a", "=", "{", "}">> \o C

\* the top frame reads an empty line as the first line of its unit, in an
\* input of balanced braces
FirstLineEmpty ==
    /\ Reading /\ Top.pc = "start"
    /\ Count("{", data) = Count("}", data)
    /\ get_next_line.ok /\ get_next_line.line = <<>>

C14_EmptyFirstLine ==
    /\ [][FirstLineEmpty =>
              /\ diags' = Append(diags, UnexpectedEnd)
              /\ Returns /\ Returned = List(<<>>)]_vars
    /\ []((data = ExEmptyUnit /\ status = "done")
            => /\ map_data = Dict(KeyA :> List(<<>>))
               /\ diags = <<UnexpectedEnd>>)

(***************************************************************************)
(* C15  The preprocessor respects quoted strings: while the quote flag is  *)
(* set it copies every character, brace and comma included, and inserts    *)
(* nothing, so a quoted value reaches the reader on one line:              *)
(* {a="x}y",b=2} is a mapping of a to the quoted text and b to 2.          *)
(***************************************************************************)
\* the character scanned lies between an opening quote and its closing quote
InsideQuotes ==
    /\ Scanning /\ in_quote /\ ch # "\""
    /\ \E j \in (pos + 1)..Len(data) : data[j] = "\""

C15_QuotedNeverSplit ==
    /\ [][InsideQuotes => extended_map' = Append(extended_map, ch)]_vars
    /\ []((data = ExQuotedBrace /\ status \in {"done", "failed"})
            => /\ status = "done"
               /\ Len(parsed_map) = 4
               /\ map_data = Dict((KeyA :> Str(<<"\"", "x", "}", "y", "\"">>))
                                  @@ (KeyB :> Int_(2))))

(***************************************************************************)
(* C16  A mapping line with `=` is split at its first `=` only: the key is *)
(* the text before it, the remainder all the text after it with its other  *)
(* `=` characters kept; the remainder is read as a nested unit iff it is   *)
(* exactly `{`, and otherwise goes whole to change_data_type.              *)
(***************************************************************************)
FirstEq(line) == SetMin({i \in 1..Len(line) : line[i] = "="})

Before(line) == SubSeq(line, 1, FirstEq(line) - 1)

After(line) == SubSeq(line, FirstEq(line) + 1, Len(line))

\* the top frame of a mapping unit is at a line with `=`
MapEntry == InMapLoop /\ ~Has("}", Top.line) /\ Has("=", Top.line)

C16_SplitAtFirstEq ==
    [][MapEntry =>
          IF After(Top.line) = <<"{">>
          THEN /\ Len(stack') = Len(stack) + 1
               /\ stack'[Len(stack)].pc = "call"
               /\ stack'[Len(stack)].key = Before(Top.line)
               /\ stack'[Len(stack')] = NewFrame
          ELSE /\ Len(stack') = Len(stack)
               /\ IF IsRaise(change_data_type(After(Top.line)))
                  THEN status' = "failed" /\ error' = "ValueError"
                  ELSE /\ status' = "reading"
                       /\ Before(Top.line) \in
                              DOMAIN stack'[Len(stack)].return_data
                       /\ stack'[Len(stack)].return_data[Before(Top.line)]
                              = change_data_type(After(Top.line))]_vars

C16_Witness ==
    /\ data = ExEquals /\ status = "done"
    /\ map_data = Dict((KeyA :> Str(<<"\"", "b", "=", "c", "=", "\"">>))
                       @@ (KeyB :> T1))

(***************************************************************************)
(* C17  The kind of a unit is decided once, by its first line: the frame   *)
(* is a mapping iff that line holds `=`, no later step changes the kind,   *)
(* and every return, the one after a diagnostic included, hands back a     *)
(* Sequence from a sequence frame and a Mapping from a mapping frame.      *)
(***************************************************************************)
\* the frames below the top one, and the top one unless it is being
\* started or has returned
KindsKept ==
    \A i \in 1..Len(stack) :
        (i <= Len(stack') /\ stack[i].kind # "none")
           => stack'[i].kind = stack[i].kind

C17_KindFixedByFirstLine ==
    [][/\ (Reading /\ Top.pc = "start" /\ get_next_line.ok)
            => stack'[Len(stack)].kind =
                  (IF Has("=", Line(counter + 1)) THEN "map" ELSE "seq")
       /\ KindsKept
       /\ Returns => /\ Top.kind \in {"seq", "map"}
                     /\ Returned.t = (IF Top.kind = "seq" THEN "Seq" ELSE "Map")
      ]_vars

\* {a=1,{x=5},b=2}: a Mapping returned after the line `{` without `=`
C17_Witness ==
    /\ data = ExKeyless /\ status = "done" /\ Len(diags) = 1
    /\ Has("=", Line(2)) /\ ~Has("=", Line(3))
    /\ map_data.t = "Map"

(***************************************************************************)
(* C18  The parse terminates on every input, with a value or in a hard     *)
(* failure: every reader step either reads a line or is the one step the   *)
(* frame takes on the line it has read, so the steps of the reader are     *)
(* bounded by the number of lines and the counter cannot stand still.      *)
(***************************************************************************)
\* a state in which some step can be taken: the preprocessor has a character
\* to scan or the lines to split, and the frame that runs is at a read or at
\* the head of its loop, where the cases of the loop body cover every line
NotStuck ==
    \/ status = "preprocessing"
    \/ /\ Reading
       /\ \/ Top.pc = "start"
          \/ Top.pc \in {"next", "loop"} /\ Top.kind \in {"seq", "map"}

\* twice the lines left to read, plus one while a line read waits for its
\* step
Measure ==
    2 * (Len(parsed_map) - counter)
      + (IF Len(stack) > 0 /\ Top.pc = "loop" THEN 1 ELSE 0)

C18_Terminates ==
    /\ <>Terminated
    /\ [](Terminated \/ NotStuck)
    /\ [](status = "reading" => Measure >= 0)
    /\ [][status = "reading" => (Measure' < Measure \/ status' = "failed")]_vars
    /\ [][(Reading /\ Top.pc \in {"start", "next"})
             => (counter' = counter + 1 \/ status' = "failed")]_vars

\* the nested example read to its last line
C18_Witness ==
    /\ data = ExNested /\ status = "done" /\ Measure = 0
    /\ Len(consumed) = Len(parsed_map) - 1

(***************************************************************************)
(* C19  The preprocessor only inserts: each step copies the character it   *)
(* scans and adds nothing but a line break with its indent, so the output  *)
(* without the inserted breaks and indents is the input; and each inserted *)
(* break is followed by as many indent units as the brace depth at that    *)
(* point, after the increment for `{` and after the decrement for `}`.     *)
(***************************************************************************)
\* the `{` scanned minus the `}` scanned, the character at pos included
DepthAt ==
    Count("{", SubSeq(data, 1, pos)) - Count("}", SubSeq(data, 1, pos))

\* the step is a scan step that inserts a line break
InsertsBreak ==
    /\ Scanning /\ ch # "\n"
    /\ Count("\n", extended_map') > Count("\n", extended_map)

\* the indent units the step inserts
UnitsInserted ==
    Count("\t", extended_map') - Count("\t", extended_map)
      - (IF ch = "\t" THEN 1 ELSE 0)

\* a text without line breaks and indent units
Unbroken(s) == SelectSeq(s, LAMBDA c : c \notin {"\n", "\t"})

\* the scanned part of an input comes back when the breaks are deleted
ScannedKept ==
    ~(Has("\n", data) \/ Has("\t", data))
       => Unbroken(extended_map) =
             SubSeq(data, 1, IF pos > Len(data) THEN Len(data) ELSE pos - 1)

\* what the scan of ch appends: ch with a break after `{` and after a comma
\* outside quotes, ch with a break before `}`, ch alone otherwise
Appended(brk) ==
    CASE ch = "{" -> <<ch>> \o brk
      [] ch = "}" -> brk \o <<ch>>
      [] ch = "," /\ ~QuoteFlagAt(pos) -> <<ch>> \o brk
      [] OTHER -> <<ch>>

C19_IndentIsDepth ==
    /\ []ScannedKept
    /\ [][Scanning => \E n \in 0..Len(data) :
              extended_map' = extended_map \o Appended(<<"\n">> \o Tabs(n))
          ]_vars
    /\ [][InsertsBreak => UnitsInserted = DepthAt]_vars

\* amended: no indent unit when the depth is negative
C19_IndentIsDepthOrNone ==
    /\ []ScannedKept
    /\ [][Scanning =>
              extended_map' = extended_map
                                \o Appended(<<"\n">> \o Tabs(DepthAt))]_vars
    /\ [][InsertsBreak =>
              UnitsInserted = (IF DepthAt > 0 THEN DepthAt ELSE 0)]_vars

\* the lines of {a={1,2},b={x=1}}: 2 at depth 2, the brace that closes the
\* unit of a at depth 1
C19_Witness ==
    /\ data = ExNested /\ status = "done"
    /\ Unbroken(extended_map) = data
    /\ parsed_map[4] = <<"\t", "\t", "2">>
    /\ parsed_map[5] = <<"\t", "}", ",">>

====
